---- MODULE Spec2Model ----
(***************************************************************************)
(* DatabaseULog (pyulog/db.py): a decoded ULog persisted into a sqlite3    *)
(* database and read back.  The database is a record of tables, each table *)
(* a sequence of rows in rowid order; a handle is the in-memory ULog       *)
(* object together with _pk, _lazy_loaded and _sha256sum.                  *)
(*                                                                         *)
(* Python values are represented as follows: None (for _pk) is 0, a dict   *)
(* is the sequence of its [k, v] items in insertion order, a str of the    *)
(* flag columns is a sequence of characters [cp], bool is the int subtype  *)
(* (True = 1), a numpy array is the sequence of its elements, a 'float'    *)
(* element is its IEEE-754 bit pattern read as an int32.                   *)
(***************************************************************************)
EXTENDS Integers, Sequences, FiniteSets, TLC

\* ---------------------------------------------------------------- bounds
NumContents == 2      \* distinct .ulg files (distinct SHA256 digests)
MaxId == 2            \* largest rowid the ULog table hands out
MaxLoads == 1         \* explicit load() calls in one run
MaxFileLen == 3       \* bytes in a log file given to calc_sha256sum
MaxItems == 3         \* messages, markers and stray bytes after the header of a raw log

\* ------------------------------------------------------ program constants
SCHEMA_VERSION == 5
BLOCK_SIZE == 4096
ULOG_MESSAGE_HEADER_SIZE == 3

\* Two DatabaseULog objects share the database file.
Handles == {1, 2}
Contents == 1..NumContents
Ids == 1..MaxId
None == 0

\* ------------------------------------------------------- sequence helpers
RECURSIVE Flatten(_)
Flatten(ss) == IF ss = <<>> THEN <<>> ELSE Head(ss) \o Flatten(Tail(ss))

RECURSIVE FoldLeft(_, _, _)
FoldLeft(Op(_, _), acc, s) ==
    IF s = <<>> THEN acc ELSE FoldLeft(Op, Op(acc, Head(s)), Tail(s))

Range(s) == {s[i] : i \in DOMAIN s}

\* ------------------------------------------------------------ Python dict
\* d[k] = v : an existing key keeps its position, a new key is appended.
DictHas(d, k) == \E i \in DOMAIN d : d[i].k = k
DictIdx(d, k) == CHOOSE i \in DOMAIN d : d[i].k = k
DictGet(d, k) == d[DictIdx(d, k)].v
DictSet(d, k, v) ==
    IF DictHas(d, k) THEN [d EXCEPT ![DictIdx(d, k)] = [k |-> k, v |-> v]]
    ELSE Append(d, [k |-> k, v |-> v])

\* ------------------------------------------------- chr / ord of the flags
Chr(n) == [cp |-> n]
Ord(c) == c.cp
JoinChr(flags) == [i \in DOMAIN flags |-> Chr(flags[i])]
OrdAll(text) == [i \in DOMAIN text |-> Ord(text[i])]

\* ------------------------------------- numpy tobytes / frombuffer (packed)
\* Element size in bytes and signedness of the numpy dtype of a ULog type.
TypeSize(t) ==
    CASE t = "int8_t" -> 1
      [] t = "uint8_t" -> 1
      [] t = "int16_t" -> 2
      [] t = "uint16_t" -> 2
      [] t = "float" -> 4
      [] t = "uint64_t" -> 8

TypeSigned(t) == t \in {"int8_t", "int16_t", "float"}

RECURSIVE LEBytes(_, _)
LEBytes(n, w) ==
    IF w = 0 THEN <<>> ELSE <<n % 256>> \o LEBytes(n \div 256, w - 1)

RECURSIVE LEValue(_, _)
LEValue(b, signed) ==
    IF Len(b) = 1
    THEN (IF signed /\ b[1] >= 128 THEN b[1] - 256 ELSE b[1])
    ELSE b[1] + 256 * LEValue(Tail(b), signed)

ToBytes(values, t) ==
    Flatten([i \in DOMAIN values |-> LEBytes(values[i], TypeSize(t))])

\* Mutant: the item count is one short, the last sample is not read.
FromBufferShort(bytes, t) ==
    [i \in 1..((Len(bytes) \div TypeSize(t)) - 1) |->
        LEValue(SubSeq(bytes, (i - 1) * TypeSize(t) + 1, i * TypeSize(t)),
                TypeSigned(t))]

FromBuffer(bytes, t) ==
    [i \in 1..(Len(bytes) \div TypeSize(t)) |->
        LEValue(SubSeq(bytes, (i - 1) * TypeSize(t) + 1, i * TypeSize(t)),
                TypeSigned(t))]

\* ------------------------------------------------ secondary JSON encoding
\* The text is a sequence of items: a quoted key and the tokens of the
\* value as str() prints it, after the three str.replace calls.
F_ZERO == 0
F_ONE == 1065353216
F_NAN == 2143289344
F_INF == 2139095040
F_NINF == -8388608

Tok(t, n) == [tok |-> t, num |-> n]

\* repr of one element of values.tolist()
ReprTokens(v, t) ==
    IF t # "float" THEN <<Tok("num", v)>>
    ELSE IF v = F_NAN THEN <<Tok("nan", 0)>>
    ELSE IF v = F_INF THEN <<Tok("inf", 0)>>
    ELSE IF v = F_NINF THEN <<Tok("-", 0), Tok("inf", 0)>>
    ELSE <<Tok("num", v)>>

ReplaceTok(tk) == IF tk.tok \in {"nan", "inf"} THEN Tok("null", 0) ELSE tk

ReplaceAll(toks) == [i \in DOMAIN toks |-> ReplaceTok(toks[i])]

\* str(dict(zip(timestamp_list, values.tolist()))) with the replacements
ValuesJson(timestamps, values, t) ==
    LET n == IF Len(timestamps) < Len(values) THEN Len(timestamps) ELSE Len(values)
        put(d, i) == DictSet(d, timestamps[i], ReplaceAll(ReprTokens(values[i], t)))
    IN  [null |-> FALSE, items |-> FoldLeft(put, <<>>, [i \in 1..n |-> i])]

JsonNull == [null |-> TRUE, items |-> <<>>]

\* ------------------------------------------------------ the decoded log
\* ULog.__init__(None): the attributes of a ULog that has parsed nothing.
EmptyULog ==
    [file_version |-> 0, start_timestamp |-> 0, last_timestamp |-> 0,
     compat_flags |-> <<0, 0>>, incompat_flags |-> <<0, 0>>,
     sync_seq_cnt |-> 0, has_sync |-> 1,
     appended_offsets |-> <<>>, data_list |-> <<>>, dropouts |-> <<>>,
     logged_messages |-> <<>>, logged_messages_tagged |-> <<>>,
     message_formats |-> <<>>,
     msg_info_dict |-> <<>>, msg_info_dict_types |-> <<>>,
     msg_info_multiple_dict |-> <<>>, msg_info_multiple_dict_types |-> <<>>,
     initial_parameters |-> <<>>, default_parameters |-> <<>>,
     changed_parameters |-> <<>>]

ContentFields == DOMAIN EmptyULog

KV(k, v) == [k |-> k, v |-> v]
FieldData(n, t) == [field_name |-> n, type_str |-> t]
FormatField(t, a, n) == [type |-> t, size |-> a, name |-> n]
Data(n, mi, msg, tsi, fd, d) ==
    [name |-> n, multi_id |-> mi, msg_id |-> msg, timestamp_idx |-> tsi,
     field_data |-> fd, data |-> d]

\* What the decoder yields for the k-th file: ULog.__init__(log_file).
FileLog(k) ==
    CASE k = 1 ->
        [EmptyULog EXCEPT
            !.file_version = 1, !.start_timestamp = 10, !.last_timestamp = 30,
            !.compat_flags = <<1, 0>>, !.incompat_flags = <<0, 255>>,
            !.sync_seq_cnt = 2, !.has_sync = 1,
            !.appended_offsets = <<300, 200>>,
            !.data_list = <<
                Data("imu", 0, 1, 0,
                     <<FieldData("timestamp", "uint64_t"), FieldData("value", "int8_t")>>,
                     <<KV("timestamp", <<10, 20>>), KV("value", <<-1, 127>>)>>),
                Data("imu", 1, 2, 0,
                     <<FieldData("timestamp", "uint64_t"), FieldData("value", "int8_t")>>,
                     <<KV("timestamp", <<11, 21>>), KV("value", <<5, -128>>)>>)>>,
            !.dropouts = <<[timestamp |-> 12, duration |-> 3]>>,
            !.logged_messages = <<[log_level |-> 6, timestamp |-> 15, message |-> "takeoff"],
                                  [log_level |-> 4, timestamp |-> 14, message |-> "warn"]>>,
            !.logged_messages_tagged =
                <<KV(2, <<[log_level |-> 6, tag |-> 2, timestamp |-> 16, message |-> "tagged"]>>)>>,
            !.message_formats =
                <<KV("imu", [name |-> "imu",
                             fields |-> <<FormatField("uint64_t", 0, "timestamp"),
                                          FormatField("int8_t", 0, "value")>>])>>,
            !.msg_info_dict = <<KV("sys_name", "PX4")>>,
            !.msg_info_dict_types = <<KV("sys_name", "char[3]")>>,
            !.msg_info_multiple_dict = <<KV("perf", << <<"a", "b">>, <<"c">> >>)>>,
            !.msg_info_multiple_dict_types = <<KV("perf", "char[1]")>>,
            !.initial_parameters = <<KV("P_B", 2), KV("P_A", 1)>>,
            !.default_parameters = <<KV(1, <<KV("P_A", 0)>>), KV(2, <<KV("P_A", 7)>>)>>,
            !.changed_parameters = <<[timestamp |-> 20, key |-> "P_A", value |-> 3],
                                     [timestamp |-> 25, key |-> "P_B", value |-> 4]>>]
      [] k = 2 ->
        [EmptyULog EXCEPT
            !.file_version = 1, !.start_timestamp = 5, !.last_timestamp = 9,
            !.compat_flags = <<0, 0>>, !.incompat_flags = <<0, 0>>,
            !.sync_seq_cnt = 0, !.has_sync = 0,
            !.data_list = <<
                Data("gps", 0, 0, 0,
                     <<FieldData("timestamp", "uint64_t"), FieldData("alt", "float"),
                       FieldData("fix", "uint8_t")>>,
                     <<KV("timestamp", <<5, 6, 7, 8>>),
                       KV("alt", <<F_ONE, F_NAN, F_INF, F_NINF>>),
                       KV("fix", <<0, 3, 200, 255>>)>>)>>,
            !.message_formats =
                <<KV("gps", [name |-> "gps",
                             fields |-> <<FormatField("uint64_t", 0, "timestamp"),
                                          FormatField("float", 0, "alt"),
                                          FormatField("uint8_t", 0, "fix")>>])>>,
            !.changed_parameters = <<[timestamp |-> 9, key |-> "P_A", value |-> 3],
                                     [timestamp |-> 6, key |-> "P_A", value |-> 4]>>]
      [] OTHER ->
        [EmptyULog EXCEPT
            !.file_version = 1, !.start_timestamp = k, !.last_timestamp = 10 * k,
            !.compat_flags = <<k, 0>>, !.incompat_flags = <<0, 0>>,
            !.sync_seq_cnt = k, !.has_sync = k % 2,
            !.appended_offsets = <<k>>,
            !.data_list = <<
                Data("baro", 0, 0, 1,
                     <<FieldData("p", "int16_t"), FieldData("timestamp", "uint16_t")>>,
                     <<KV("p", <<-k, k, 32767>>), KV("timestamp", <<k, 256 * k, 65535>>)>>)>>,
            !.message_formats =
                <<KV("baro", [name |-> "baro",
                              fields |-> <<FormatField("int16_t", 0, "p"),
                                           FormatField("uint16_t", 0, "timestamp")>>])>>,
            !.msg_info_dict = <<KV("ver_hw", "v5")>>,
            !.msg_info_dict_types = <<KV("ver_hw", "char[2]")>>,
            !.initial_parameters = <<KV("P_A", k)>>]

\* The digest of the k-th file: distinct files have distinct digests.
Sha256(k) == k

\* ---------------------------------------------------------- the database
TableNames ==
    {"ULog", "ULogAppendedOffsets", "ULogDataset", "ULogField",
     "ULogMessageDropout", "ULogMessageLogging", "ULogMessageLoggingTagged",
     "ULogMessageFormat", "ULogMessageFormatField", "ULogMessageInfo",
     "ULogMessageInfoMultiple", "ULogMessageInfoMultipleList",
     "ULogMessageInfoMultipleListElement", "ULogInitialParameter",
     "ULogDefaultParameter", "ULogChangedParameter"}

EmptyDb == [t \in TableNames |-> <<>>]

\* cur.lastrowid of a table whose rowid is INTEGER PRIMARY KEY.
NextRowId(table) == IF table = <<>> THEN 1 ELSE table[Len(table)].Id + 1

\* How ULog.Id is declared is the schema's matter.  A plain INTEGER PRIMARY
\* KEY keeps no sqlite_sequence row and hands out the largest stored Id
\* plus one; with AUTOINCREMENT the sqlite_sequence row of the table holds
\* the largest Id ever handed out, and the next one is that plus one.
NoSequence == <<>>
Sequence(seq) == <<[name |-> "ULog", seq |-> seq]>>

\* A database with no rows, for either declaration of ULog.Id.
NewDb(sequence) == EmptyDb @@ [sqlite_sequence |-> sequence]

\* The rowid the ULog table hands out next, if the model still has one.
FreeIds(d) ==
    {IF d.sqlite_sequence = NoSequence THEN NextRowId(d.ULog)
     ELSE d.sqlite_sequence[1].seq + 1} \cap Ids

\* SELECT ... WHERE ... is SelectSeq: the matching rows in rowid order.

\* ------------------------------------------------- save(): the INSERTs
\* Each operator is one statement group of save(), in source order, applied
\* to the tables d for the handle state u and the new rowid pk.
InsULog(d, u, pk) ==
    [d EXCEPT !.sqlite_sequence = IF @ = NoSequence THEN @ ELSE Sequence(pk),
              !.ULog = Append(@,
        [Id |-> pk,
         FileVersion |-> u.file_version,
         StartTimestamp |-> u.start_timestamp,
         LastTimestamp |-> u.last_timestamp,
         CompatFlags |-> JoinChr(u.compat_flags),
         IncompatFlags |-> JoinChr(u.incompat_flags),
         SyncCount |-> u.sync_seq_cnt,
         HasSync |-> u.has_sync,
         SHA256Sum |-> u.sha256sum])]

InsAppendedOffsets(d, u, pk) ==
    [d EXCEPT !.ULogAppendedOffsets = @ \o
        [i \in DOMAIN u.appended_offsets |->
            [SeriesIndex |-> i - 1, Offset |-> u.appended_offsets[i], ULogId |-> pk]]]

\* Mutant: with append_json the values go into the JSON column only.
FieldRowsJsonOnly(dataset, dataset_id, append_json) ==
    [j \in DOMAIN dataset.field_data |->
        LET field == dataset.field_data[j]
            values == DictGet(dataset.data, field.field_name)
        IN  [TopicName |-> field.field_name,
             DataType |-> field.type_str,
             ValueArray |-> IF append_json THEN <<>> ELSE ToBytes(values, field.type_str),
             ValueJson |-> IF append_json
                           THEN ValuesJson(DictGet(dataset.data, "timestamp"),
                                           values, field.type_str)
                           ELSE JsonNull,
             DatasetId |-> dataset_id]]

FieldRows(dataset, dataset_id, append_json) ==
    [j \in DOMAIN dataset.field_data |->
        LET field == dataset.field_data[j]
            values == DictGet(dataset.data, field.field_name)
        IN  [TopicName |-> field.field_name,
             DataType |-> field.type_str,
             ValueArray |-> ToBytes(values, field.type_str),
             ValueJson |-> IF append_json
                           THEN ValuesJson(DictGet(dataset.data, "timestamp"),
                                           values, field.type_str)
                           ELSE JsonNull,
             DatasetId |-> dataset_id]]

InsDataList(d, u, pk, append_json) ==
    LET base == NextRowId(d.ULogDataset) - 1
    IN  [d EXCEPT
            !.ULogDataset = @ \o
                [i \in DOMAIN u.data_list |->
                    [Id |-> base + i,
                     DatasetName |-> u.data_list[i].name,
                     MultiId |-> u.data_list[i].multi_id,
                     MessageId |-> u.data_list[i].msg_id,
                     TimestampIndex |-> u.data_list[i].timestamp_idx,
                     ULogId |-> pk]],
            !.ULogField = @ \o Flatten(
                [i \in DOMAIN u.data_list |->
                    FieldRows(u.data_list[i], base + i, append_json)])]

InsDropouts(d, u, pk) ==
    [d EXCEPT !.ULogMessageDropout = @ \o
        [i \in DOMAIN u.dropouts |->
            [Timestamp |-> u.dropouts[i].timestamp,
             Duration |-> u.dropouts[i].duration,
             ULogId |-> pk]]]

InsLoggedMessages(d, u, pk) ==
    [d EXCEPT !.ULogMessageLogging = @ \o
        [i \in DOMAIN u.logged_messages |->
            [LogLevel |-> u.logged_messages[i].log_level,
             Timestamp |-> u.logged_messages[i].timestamp,
             Message |-> u.logged_messages[i].message,
             ULogId |-> pk]]]

InsLoggedMessagesTagged(d, u, pk) ==
    [d EXCEPT !.ULogMessageLoggingTagged = @ \o Flatten(
        [i \in DOMAIN u.logged_messages_tagged |->
            LET tag == u.logged_messages_tagged[i].k
                messages == u.logged_messages_tagged[i].v
            IN  [j \in DOMAIN messages |->
                    [LogLevel |-> messages[j].log_level,
                     Timestamp |-> messages[j].timestamp,
                     Tag |-> tag,
                     Message |-> messages[j].message,
                     ULogId |-> pk]]])]

InsMessageFormats(d, u, pk) ==
    LET base == NextRowId(d.ULogMessageFormat) - 1
    IN  [d EXCEPT
            !.ULogMessageFormat = @ \o
                [i \in DOMAIN u.message_formats |->
                    [Id |-> base + i, Name |-> u.message_formats[i].k, ULogId |-> pk]],
            !.ULogMessageFormatField = @ \o Flatten(
                [i \in DOMAIN u.message_formats |->
                    LET fields == u.message_formats[i].v.fields
                    IN  [j \in DOMAIN fields |->
                            [FieldType |-> fields[j].type,
                             ArraySize |-> fields[j].size,
                             Name |-> fields[j].name,
                             MessageId |-> base + i]]])]

InsMsgInfo(d, u, pk) ==
    [d EXCEPT !.ULogMessageInfo = @ \o
        [i \in DOMAIN u.msg_info_dict |->
            [Key |-> u.msg_info_dict[i].k,
             Value |-> u.msg_info_dict[i].v,
             Typename |-> DictGet(u.msg_info_dict_types, u.msg_info_dict[i].k),
             ULogId |-> pk]]]

\* The ListId given to the j-th inner list of the i-th key.
ListsBefore(dict, i) ==
    FoldLeft(LAMBDA acc, kv : acc + Len(kv.v), 0, SubSeq(dict, 1, i - 1))

InsMsgInfoMultiple(d, u, pk) ==
    LET dict == u.msg_info_multiple_dict
        base == NextRowId(d.ULogMessageInfoMultiple) - 1
        lbase == NextRowId(d.ULogMessageInfoMultipleList) - 1
        list_id(i, j) == lbase + ListsBefore(dict, i) + j
    IN  [d EXCEPT
            !.ULogMessageInfoMultiple = @ \o
                [i \in DOMAIN dict |->
                    [Id |-> base + i,
                     Key |-> dict[i].k,
                     Typename |-> DictGet(u.msg_info_multiple_dict_types, dict[i].k),
                     ULogId |-> pk]],
            !.ULogMessageInfoMultipleList = @ \o Flatten(
                [i \in DOMAIN dict |->
                    [j \in DOMAIN dict[i].v |->
                        [Id |-> list_id(i, j), SeriesIndex |-> j - 1, MessageId |-> base + i]]]),
            !.ULogMessageInfoMultipleListElement = @ \o Flatten(
                [i \in DOMAIN dict |-> Flatten(
                    [j \in DOMAIN dict[i].v |->
                        [e \in DOMAIN dict[i].v[j] |->
                            [SeriesIndex |-> e - 1,
                             Value |-> dict[i].v[j][e],
                             ListId |-> list_id(i, j)]]])])]

InsInitialParameters(d, u, pk) ==
    [d EXCEPT !.ULogInitialParameter = @ \o
        [i \in DOMAIN u.initial_parameters |->
            [Key |-> u.initial_parameters[i].k,
             Value |-> u.initial_parameters[i].v,
             ULogId |-> pk]]]

InsDefaultParameters(d, u, pk) ==
    [d EXCEPT !.ULogDefaultParameter = @ \o Flatten(
        [i \in DOMAIN u.default_parameters |->
            LET default_type == u.default_parameters[i].k
                parameters == u.default_parameters[i].v
            IN  [j \in DOMAIN parameters |->
                    [DefaultType |-> default_type,
                     Key |-> parameters[j].k,
                     Value |-> parameters[j].v,
                     ULogId |-> pk]]])]

InsChangedParameters(d, u, pk) ==
    [d EXCEPT !.ULogChangedParameter = @ \o
        [i \in DOMAIN u.changed_parameters |->
            [Timestamp |-> u.changed_parameters[i].timestamp,
             Key |-> u.changed_parameters[i].key,
             Value |-> u.changed_parameters[i].value,
             ULogId |-> pk]]]

\* Number of statement groups of save()'s transaction, the commit included.
SaveSteps == 13

\* The i-th statement group of save()'s transaction.
SaveStatement(d, u, pk, append_json, i) ==
    CASE i = 1 -> InsULog(d, u, pk)
      [] i = 2 -> InsAppendedOffsets(d, u, pk)
      [] i = 3 -> InsDataList(d, u, pk, append_json)
      [] i = 4 -> InsDropouts(d, u, pk)
      [] i = 5 -> InsLoggedMessages(d, u, pk)
      [] i = 6 -> InsLoggedMessagesTagged(d, u, pk)
      [] i = 7 -> InsMessageFormats(d, u, pk)
      [] i = 8 -> InsMsgInfo(d, u, pk)
      [] i = 9 -> InsMsgInfoMultiple(d, u, pk)
      [] i = 10 -> InsInitialParameters(d, u, pk)
      [] i = 11 -> InsDefaultParameters(d, u, pk)
      [] i = 12 -> InsChangedParameters(d, u, pk)

\* The tables as the open transaction sees them after the first n statement
\* groups of save() have run.
RECURSIVE SaveWrites(_, _, _, _, _)
SaveWrites(d, u, pk, append_json, n) ==
    IF n = 0 THEN d
    ELSE SaveStatement(SaveWrites(d, u, pk, append_json, n - 1), u, pk, append_json, n)

\* ------------------------------------------------------- static lookups
\* Mutant: the count is not compared, every Id is reported as stored.
exists_in_db_always(d, primary_key) == TRUE

\* exists_in_db: SELECT COUNT(*) FROM ULog WHERE Id = ? ... count == 1
exists_in_db(d, primary_key) ==
    Len(SelectSeq(d.ULog, LAMBDA r : r.Id = primary_key)) = 1

\* Mutant: the lookup compares the Id column with the digest.
primary_key_from_sha256sum_by_id(d, sha256sum) ==
    LET rows == SelectSeq(d.ULog, LAMBDA r : r.Id = sha256sum)
    IN  IF rows # <<>> THEN rows[1].Id ELSE None

\* primary_key_from_sha256sum: the Id of the first row with that digest,
\* None when there is no such row.
primary_key_from_sha256sum(d, sha256sum) ==
    LET rows == SelectSeq(d.ULog, LAMBDA r : r.SHA256Sum = sha256sum)
    IN  IF rows # <<>> THEN rows[1].Id ELSE None

\* ----------------------------------------------------------- get_dataset
\* BINARY collation of the dataset names that occur, for ORDER BY.
Collation == <<"baro", "gps", "imu">>
NameRank(name) == CHOOSE i \in DOMAIN Collation : Collation[i] = name

NoData == Data("", 0, 0, 0, <<>>, <<>>)

\* bool(dataset.data): a dict is true when it has at least one key.
Truthy(data) == data # <<>>

\* The first entry of _data_list with that name and multi id, 0 for None.
ExistingDataset(data_list, name, multi_instance) ==
    LET hits == {i \in DOMAIN data_list :
                    /\ data_list[i].name = name
                    /\ data_list[i].multi_id = multi_instance}
    IN  IF hits = {} THEN 0 ELSE CHOOSE i \in hits : \A j \in hits : i <= j

\* Mutant: any known entry is returned, whether or not it holds data.
CacheHitAnyEntry(data_list, existing, lazy, caching) ==
    /\ caching
    /\ existing # 0

\* Mutant: an entry is returned only to a caller that asks for metadata.
CacheHitLazyOnly(data_list, existing, lazy, caching) ==
    /\ caching
    /\ existing # 0
    /\ lazy

\* The cache-hit test that returns existing_dataset without reading.
CacheHit(data_list, existing, lazy, caching) ==
    /\ caching
    /\ existing # 0
    /\ (lazy \/ Truthy(data_list[existing].data))

\* Mutant: a dataset read for a key without an entry is appended to
\* _data_list when caching is requested.
get_dataset_inserting(u, d, name, multi_instance, lazy, caching) ==
    LET existing == ExistingDataset(u.data_list, name, multi_instance)
        rows == SelectSeq(d.ULogDataset,
                      LAMBDA r : /\ r.DatasetName = name
                                 /\ r.MultiId = multi_instance
                                 /\ r.ULogId = u.pk)
        field_results == IF lazy THEN <<>>
                         ELSE SelectSeq(d.ULogField, LAMBDA r : r.DatasetId = rows[1].Id)
        fields == [i \in DOMAIN field_results |->
                      FieldData(field_results[i].TopicName, field_results[i].DataType)]
        data == FoldLeft(LAMBDA acc, r :
                             DictSet(acc, r.TopicName, FromBuffer(r.ValueArray, r.DataType)),
                         <<>>, field_results)
        fresh == Data(name, multi_instance, rows[1].MessageId, rows[1].TimestampIndex,
                      fields, data)
    IN  IF CacheHit(u.data_list, existing, lazy, caching)
        THEN [res |-> "ok", fetched |-> FALSE,
              dataset |-> u.data_list[existing], data_list |-> u.data_list]
        ELSE IF rows = <<>>
        THEN [res |-> "NotFound", fetched |-> TRUE,
              dataset |-> NoData, data_list |-> u.data_list]
        ELSE IF caching /\ existing # 0
        THEN [res |-> "ok", fetched |-> TRUE,
              dataset |-> fresh,
              data_list |-> [u.data_list EXCEPT ![existing] = fresh]]
        ELSE [res |-> "ok", fetched |-> TRUE,
              dataset |-> fresh,
              data_list |-> IF caching THEN Append(u.data_list, fresh) ELSE u.data_list]

\* One call of get_dataset on the object u against the tables d.  The result
\* carries the outcome, the dataset returned, the object's _data_list after
\* the call and whether the database was read.
get_dataset(u, d, name, multi_instance, lazy, caching) ==
    LET existing == ExistingDataset(u.data_list, name, multi_instance)
        rows == SelectSeq(d.ULogDataset,
                      LAMBDA r : /\ r.DatasetName = name
                                 /\ r.MultiId = multi_instance
                                 /\ r.ULogId = u.pk)
        field_results == IF lazy THEN <<>>
                         ELSE SelectSeq(d.ULogField, LAMBDA r : r.DatasetId = rows[1].Id)
        fields == [i \in DOMAIN field_results |->
                      FieldData(field_results[i].TopicName, field_results[i].DataType)]
        data == FoldLeft(LAMBDA acc, r :
                             DictSet(acc, r.TopicName, FromBuffer(r.ValueArray, r.DataType)),
                         <<>>, field_results)
        fresh == Data(name, multi_instance, rows[1].MessageId, rows[1].TimestampIndex,
                      fields, data)
    IN  IF CacheHit(u.data_list, existing, lazy, caching)
        THEN [res |-> "ok", fetched |-> FALSE,
              dataset |-> u.data_list[existing], data_list |-> u.data_list]
        ELSE IF rows = <<>>
        THEN [res |-> "NotFound", fetched |-> TRUE,
              dataset |-> NoData, data_list |-> u.data_list]
        ELSE IF caching /\ existing # 0
        THEN [res |-> "ok", fetched |-> TRUE,
              dataset |-> fresh,
              data_list |-> [u.data_list EXCEPT ![existing] = fresh]]
        ELSE [res |-> "ok", fetched |-> TRUE,
              dataset |-> fresh, data_list |-> u.data_list]

\* ------------------------------------------------------ load(): the reads
DatasetOrder(a, b) ==
    \/ NameRank(a.DatasetName) < NameRank(b.DatasetName)
    \/ /\ a.DatasetName = b.DatasetName
       /\ a.MultiId < b.MultiId

BySeriesIndex(a, b) == a.SeriesIndex < b.SeriesIndex

LoadHeader(u, row) ==
    [u EXCEPT
        !.file_version = row.FileVersion,
        !.start_timestamp = row.StartTimestamp,
        !.last_timestamp = row.LastTimestamp,
        !.compat_flags = OrdAll(row.CompatFlags),
        !.incompat_flags = OrdAll(row.IncompatFlags),
        !.sync_seq_cnt = row.SyncCount,
        !.has_sync = row.HasSync,
        !.sha256sum = row.SHA256Sum]

LoadAppendedOffsets(u, d) ==
    LET rows == SortSeq(SelectSeq(d.ULogAppendedOffsets, LAMBDA r : r.ULogId = u.pk),
                        BySeriesIndex)
    IN  [u EXCEPT !.appended_offsets = @ \o [i \in DOMAIN rows |-> rows[i].Offset]]

LoadDataList(u, d, lazy) ==
    LET rows == SortSeq(SelectSeq(d.ULogDataset, LAMBDA r : r.ULogId = u.pk), DatasetOrder)
        empty == [u EXCEPT !.data_list = <<>>]
        add(acc, r) ==
            [acc EXCEPT !.data_list =
                Append(@, get_dataset(acc, d, r.DatasetName, r.MultiId, lazy, FALSE).dataset)]
    IN  FoldLeft(add, empty, rows)

LoadDropouts(u, d) ==
    LET rows == SelectSeq(d.ULogMessageDropout, LAMBDA r : r.ULogId = u.pk)
    IN  [u EXCEPT !.dropouts = @ \o
            [i \in DOMAIN rows |->
                [timestamp |-> rows[i].Timestamp, duration |-> rows[i].Duration]]]

LoadLoggedMessages(u, d) ==
    LET rows == SelectSeq(d.ULogMessageLogging, LAMBDA r : r.ULogId = u.pk)
    IN  [u EXCEPT !.logged_messages = @ \o
            [i \in DOMAIN rows |->
                [log_level |-> rows[i].LogLevel, timestamp |-> rows[i].Timestamp,
                 message |-> rows[i].Message]]]

LoadLoggedMessagesTagged(u, d) ==
    LET rows == SelectSeq(d.ULogMessageLoggingTagged, LAMBDA r : r.ULogId = u.pk)
        add(dict, r) ==
            LET msg == [log_level |-> r.LogLevel, tag |-> r.Tag,
                        timestamp |-> r.Timestamp, message |-> r.Message]
                old == IF DictHas(dict, r.Tag) THEN DictGet(dict, r.Tag) ELSE <<>>
            IN  DictSet(dict, r.Tag, Append(old, msg))
    IN  [u EXCEPT !.logged_messages_tagged = FoldLeft(add, @, rows)]

\* ULogMessageFormat JOIN ULogMessageFormatField for one ULogId
FormatJoin(d, pk) ==
    Flatten([i \in DOMAIN d.ULogMessageFormat |->
        LET msg == d.ULogMessageFormat[i]
            frows == SelectSeq(d.ULogMessageFormatField, LAMBDA f : f.MessageId = msg.Id)
        IN  IF msg.ULogId # pk THEN <<>>
            ELSE [j \in DOMAIN frows |->
                    [msg_name |-> msg.Name,
                     field_data |-> FormatField(frows[j].FieldType, frows[j].ArraySize,
                                                frows[j].Name)]]])

LoadMessageFormats(u, d) ==
    LET add(dict, row) ==
            IF DictHas(dict, row.msg_name)
            THEN DictSet(dict, row.msg_name,
                         [DictGet(dict, row.msg_name) EXCEPT
                              !.fields = Append(@, row.field_data)])
            ELSE DictSet(dict, row.msg_name,
                         [name |-> row.msg_name, fields |-> <<row.field_data>>])
    IN  [u EXCEPT !.message_formats = FoldLeft(add, @, FormatJoin(d, u.pk))]

LoadMsgInfo(u, d) ==
    LET rows == SelectSeq(d.ULogMessageInfo, LAMBDA r : r.ULogId = u.pk)
    IN  [u EXCEPT
            !.msg_info_dict = FoldLeft(LAMBDA acc, r : DictSet(acc, r.Key, r.Value), @, rows),
            !.msg_info_dict_types =
                FoldLeft(LAMBDA acc, r : DictSet(acc, r.Key, r.Typename), @, rows)]

LoadMsgInfoMultiple(u, d) ==
    LET rows == SelectSeq(d.ULogMessageInfoMultiple, LAMBDA r : r.ULogId = u.pk)
        lists(message_id) ==
            LET lrows == SortSeq(SelectSeq(d.ULogMessageInfoMultipleList,
                                       LAMBDA r : r.MessageId = message_id),
                                 BySeriesIndex)
            IN  [i \in DOMAIN lrows |->
                    LET erows == SortSeq(SelectSeq(d.ULogMessageInfoMultipleListElement,
                                               LAMBDA e : e.ListId = lrows[i].Id),
                                         BySeriesIndex)
                    IN  [j \in DOMAIN erows |-> erows[j].Value]]
    IN  [u EXCEPT
            !.msg_info_multiple_dict =
                FoldLeft(LAMBDA acc, r : DictSet(acc, r.Key, lists(r.Id)), @, rows),
            !.msg_info_multiple_dict_types =
                FoldLeft(LAMBDA acc, r : DictSet(acc, r.Key, r.Typename), @, rows)]

LoadInitialParameters(u, d) ==
    LET rows == SelectSeq(d.ULogInitialParameter, LAMBDA r : r.ULogId = u.pk)
    IN  [u EXCEPT !.initial_parameters =
            FoldLeft(LAMBDA acc, r : DictSet(acc, r.Key, r.Value), @, rows)]

LoadDefaultParameters(u, d) ==
    LET rows == SelectSeq(d.ULogDefaultParameter, LAMBDA r : r.ULogId = u.pk)
        add(dict, r) ==
            LET old == IF DictHas(dict, r.DefaultType)
                       THEN DictGet(dict, r.DefaultType) ELSE <<>>
            IN  DictSet(dict, r.DefaultType, DictSet(old, r.Key, r.Value))
    IN  [u EXCEPT !.default_parameters = FoldLeft(add, @, rows)]

LoadChangedParameters(u, d) ==
    LET rows == SelectSeq(d.ULogChangedParameter, LAMBDA r : r.ULogId = u.pk)
    IN  [u EXCEPT !.changed_parameters = @ \o
            [i \in DOMAIN rows |->
                [timestamp |-> rows[i].Timestamp, key |-> rows[i].Key,
                 value |-> rows[i].Value]]]

\* The body of load() after the existence check, for a ULog row that is there.
LoadRows(u, d, lazy) ==
    LET row == SelectSeq(d.ULog, LAMBDA r : r.Id = u.pk)[1]
        u1 == LoadHeader(u, row)
        u2 == LoadAppendedOffsets(u1, d)
        u3 == LoadDataList(u2, d, lazy)
        u4 == LoadDropouts(u3, d)
        u5 == LoadLoggedMessages(u4, d)
        u6 == LoadLoggedMessagesTagged(u5, d)
        u7 == LoadMessageFormats(u6, d)
        u8 == LoadMsgInfo(u7, d)
        u9 == LoadMsgInfoMultiple(u8, d)
        u10 == LoadInitialParameters(u9, d)
        u11 == LoadDefaultParameters(u10, d)
        u12 == LoadChangedParameters(u11, d)
    IN  [u12 EXCEPT !.lazy_loaded = lazy]

\* ------------------------------------------------------ delete(): cascade
\* Mutant: foreign keys are not enforced, only the ULog row is deleted.
CascadeRowOnly(d, pk) ==
    [d EXCEPT !.ULog = SelectSeq(@, LAMBDA r : r.Id # pk)]

\* Mutant: the rows that reference the ULog row go with it, the rows that
\* reference those rows stay.
CascadeOneLevel(d, pk) ==
    [t \in TableNames |->
        CASE t = "ULog" -> SelectSeq(d[t], LAMBDA r : r.Id # pk)
          [] t \in {"ULogField", "ULogMessageFormatField", "ULogMessageInfoMultipleList",
                    "ULogMessageInfoMultipleListElement"} -> d[t]
          [] OTHER -> SelectSeq(d[t], LAMBDA r : r.ULogId # pk)]
    @@ [sqlite_sequence |-> d.sqlite_sequence]

\* DELETE FROM ULog WHERE Id = ? with foreign_keys=on: the row goes, and
\* with it every row that references it directly or through a parent row.
Cascade(d, pk) ==
    LET ids(table) == {table[i].Id : i \in {j \in DOMAIN table : table[j].ULogId = pk}}
        datasets == ids(d.ULogDataset)
        formats == ids(d.ULogMessageFormat)
        multis == ids(d.ULogMessageInfoMultiple)
        lists == {d.ULogMessageInfoMultipleList[i].Id :
                    i \in {j \in DOMAIN d.ULogMessageInfoMultipleList :
                              d.ULogMessageInfoMultipleList[j].MessageId \in multis}}
    IN  [t \in TableNames |->
            CASE t = "ULog" -> SelectSeq(d[t], LAMBDA r : r.Id # pk)
              [] t = "ULogField" -> SelectSeq(d[t], LAMBDA r : r.DatasetId \notin datasets)
              [] t = "ULogMessageFormatField" ->
                    SelectSeq(d[t], LAMBDA r : r.MessageId \notin formats)
              [] t = "ULogMessageInfoMultipleList" ->
                    SelectSeq(d[t], LAMBDA r : r.MessageId \notin multis)
              [] t = "ULogMessageInfoMultipleListElement" ->
                    SelectSeq(d[t], LAMBDA r : r.ListId \notin lists)
              [] OTHER -> SelectSeq(d[t], LAMBDA r : r.ULogId # pk)]
        @@ [sqlite_sequence |-> d.sqlite_sequence]

\* The rows of every table that belong to the ULog row pk.
RowsOf(d, pk) ==
    LET ids(table) == {table[i].Id : i \in {j \in DOMAIN table : table[j].ULogId = pk}}
        datasets == ids(d.ULogDataset)
        formats == ids(d.ULogMessageFormat)
        multis == ids(d.ULogMessageInfoMultiple)
        lists == {d.ULogMessageInfoMultipleList[i].Id :
                    i \in {j \in DOMAIN d.ULogMessageInfoMultipleList :
                              d.ULogMessageInfoMultipleList[j].MessageId \in multis}}
    IN  [t \in TableNames |->
            CASE t = "ULog" -> SelectSeq(d[t], LAMBDA r : r.Id = pk)
              [] t = "ULogField" -> SelectSeq(d[t], LAMBDA r : r.DatasetId \in datasets)
              [] t = "ULogMessageFormatField" ->
                    SelectSeq(d[t], LAMBDA r : r.MessageId \in formats)
              [] t = "ULogMessageInfoMultipleList" ->
                    SelectSeq(d[t], LAMBDA r : r.MessageId \in multis)
              [] t = "ULogMessageInfoMultipleListElement" ->
                    SelectSeq(d[t], LAMBDA r : r.ListId \in lists)
              [] OTHER -> SelectSeq(d[t], LAMBDA r : r.ULogId = pk)]

\* -------------------------------------------------------- calc_sha256sum
\* The bytes of the log files at hand.
Bytes == {0, 255}
FileContents == UNION {[1..n -> Bytes] : n \in 0..MaxFileLen}

\* What calc_sha256sum returns: None, or the hex digest of the bytes that
\* went through file_hash.update, which tells apart any two byte strings.
PyNone == [kind |-> "None"]
hexdigest(bytes) == [kind |-> "hexdigest", of |-> bytes]

\* open_file.read(BLOCK_SIZE) at position pos of a file.
ReadBlock(content, pos) ==
    SubSeq(content, pos + 1,
           IF pos + BLOCK_SIZE < Len(content) THEN pos + BLOCK_SIZE ELSE Len(content))

\* The loop of calc_sha256sum from position pos: every block read goes
\* into the hash, the empty block ends the loop.
RECURSIVE ReadToEnd(_, _)
ReadToEnd(content, pos) ==
    LET block == ReadBlock(content, pos)
    IN  IF block = <<>> THEN <<>>
        ELSE block \o ReadToEnd(content, pos + Len(block))

\* calc_sha256sum(log_file) for None, the path of the file, or the
\* caller's stream on it; f is the file with the state of that stream.
\* The result carries the value returned and the position the caller's
\* stream is left at.
calc_sha256sum(f, log_file) ==
    IF log_file = "None" THEN [res |-> PyNone, pos |-> f.pos]
    ELSE IF log_file = "path" \/ f.closed
    THEN [res |-> hexdigest(ReadToEnd(f.content, 0)), pos |-> f.pos]
    ELSE [res |-> hexdigest(ReadToEnd(f.content, f.pos)), pos |-> Len(f.content)]

\* No file at hand.
NoFile == [content |-> <<>>, closed |-> TRUE, pos |-> 0, op |-> "none", res |-> PyNone]

\* ------------------------------------------- utils: reverse_search_for_arm
\* The header length and the sync magic of the ULog format.
HEADER_SIZE == 16
SYNC_BYTES == <<47, 115, 19, 32, 37, 12, 187, 18>>

\* ord('D'), ord('S'), ord('L')
ORD_D == 68
ORD_S == 83
ORD_L == 76

\* mmap.read(n) at position pos: the n bytes there, or what is left of the
\* file; all that is left when n is negative.
mmap_read(m_file, pos, n) ==
    LET left == Len(m_file) - pos
        k == IF n < 0 \/ n > left THEN left ELSE n
    IN  SubSeq(m_file, pos + 1, pos + k)

\* mmap.rfind(sub, start, end): the highest index in [start, end) at which
\* sub lies wholly inside [start, end), or -1.
mmap_rfind(m_file, sub, start, end) ==
    LET hits == {i \in start..(end - Len(sub)) :
                    SubSeq(m_file, i + 1, i + Len(sub)) = sub}
    IN  IF hits = {} THEN -1 ELSE CHOOSE i \in hits : \A j \in hits : j <= i

\* mmap.seek: a position before the start or after the end of the file is
\* refused with ValueError("seek out of range").
SeekInRange(m_file, where) == where >= 0 /\ where <= Len(m_file)

\* struct.unpack("<HBH", header_and_id)
Unpack_HBH(b) ==
    [msg_size |-> b[1] + 256 * b[2], msg_type |-> b[3], msg_id |-> b[4] + 256 * b[5]]

\* The outcomes of reverse_search_for_arm.
NoVehicleStatus == "ValueError: No vehicle_status messages found in log file."
SeekOutOfRange == "ValueError: seek out of range"
IndexOutOfRange == "IndexError: index out of range"

Raise(s, exception) == [s EXCEPT !.pc = "done", !.res = exception]
Return(s, value) == [s EXCEPT !.pc = "done", !.res = value]

\* The locals of reverse_search_for_arm at its first loop test.
SearchStart(m_file, vehicle_status_id, arm_reason_offset, items) ==
    [m_file |-> m_file, vehicle_status_id |-> vehicle_status_id,
     arm_reason_offset |-> arm_reason_offset, items |-> items,
     offset |-> Len(m_file), searched_to |-> Len(m_file), armed |-> "None",
     pos |-> 0, pc |-> "outer", res |-> "none"]

\* while offset >= ULog.HEADER_SIZE: the search for the sync magic before
\* offset and the seek behind it; the end of the function when the test
\* fails.
OuterStep(s) ==
    IF s.offset >= HEADER_SIZE
    THEN LET found == mmap_rfind(s.m_file, SYNC_BYTES, 0, s.offset)
             offset == IF found = -1 THEN HEADER_SIZE ELSE found
             where == IF found = -1 THEN offset ELSE offset + Len(SYNC_BYTES)
         IN  IF ~SeekInRange(s.m_file, where)
             THEN Raise([s EXCEPT !.offset = offset], SeekOutOfRange)
             ELSE [s EXCEPT !.offset = offset, !.pos = where, !.pc = "inner"]
    ELSE IF s.armed = "None" THEN Raise(s, NoVehicleStatus)
    ELSE Return(s, s.armed)

\* while m_file.tell() < searched_to: one message.
InnerStep(s) ==
    IF ~(s.pos < s.searched_to) THEN [s EXCEPT !.pc = "tail"]
    ELSE
    LET header_and_id == mmap_read(s.m_file, s.pos, ULOG_MESSAGE_HEADER_SIZE + 2)
        p1 == s.pos + Len(header_and_id)
    IN  IF Len(header_and_id) < ULOG_MESSAGE_HEADER_SIZE + 2
        THEN [s EXCEPT !.pos = p1, !.pc = "tail"]
        ELSE
        LET msg == Unpack_HBH(header_and_id)
        IN  IF msg.msg_type # ORD_D \/ msg.msg_id # s.vehicle_status_id
            THEN IF ~SeekInRange(s.m_file, p1 + msg.msg_size - 2)
                 THEN Raise([s EXCEPT !.pos = p1], SeekOutOfRange)
                 ELSE [s EXCEPT !.pos = p1 + msg.msg_size - 2]
            ELSE
            LET message_bytes == mmap_read(s.m_file, p1, msg.msg_size - 2)
                p2 == p1 + Len(message_bytes)
            IN  IF Len(message_bytes) < msg.msg_size - 2
                THEN [s EXCEPT !.pos = p2, !.pc = "tail"]
                ELSE IF s.arm_reason_offset >= Len(message_bytes)
                THEN Raise([s EXCEPT !.pos = p2], IndexOutOfRange)
                ELSE IF message_bytes[s.arm_reason_offset + 1] # 0
                THEN Return([s EXCEPT !.pos = p2, !.armed = "True"], "True")
                ELSE [s EXCEPT !.pos = p2, !.armed = "False"]

\* The end of an iteration of the outer loop.
TailStep(s) ==
    LET t == [s EXCEPT !.searched_to = s.offset]
    IN  IF t.armed # "None" THEN Return(t, t.armed)
        ELSE [t EXCEPT !.offset = @ - 1, !.pc = "outer"]

\* Raw logs.  After the header come sync messages, vehicle_status data
\* messages that carry a zero or a non-zero latest_arming_reason, data
\* messages of another subscription, messages of size 0 and 1, a message
\* cut short by the end of the file, a vehicle_status message without
\* payload, and stray bytes.
Zeros(n) == [i \in 1..n |-> 0]
VehicleStatusIds == {1}
ArmReasonOffsets == {0, 1}
WellFormedItems == {"sync", "disarmed", "armed", "other", "size0", "size1"}
ItemNames == WellFormedItems \cup {"truncated", "no_payload", "byte"}

\* The payload of a vehicle_status message: latest_arming_reason at
\* arm_reason_offset, another field, not zero, beside it.
StatusPayload(reason, arm_reason_offset) ==
    [i \in 1..2 |-> IF i = arm_reason_offset + 1 THEN reason ELSE 7]

ItemBytes(item, vehicle_status_id, arm_reason_offset) ==
    CASE item = "sync" -> <<8, 0, ORD_S>> \o SYNC_BYTES
      [] item = "disarmed" -> <<4, 0, ORD_D, vehicle_status_id, 0>>
                                \o StatusPayload(0, arm_reason_offset)
      [] item = "armed" -> <<4, 0, ORD_D, vehicle_status_id, 0>>
                                \o StatusPayload(1, arm_reason_offset)
      [] item = "other" -> <<3, 0, ORD_D, vehicle_status_id + 1, 0, 1>>
      [] item = "size0" -> <<0, 0, ORD_L>>
      [] item = "size1" -> <<1, 0, ORD_L, 1>>
      [] item = "truncated" -> <<50, 0, ORD_D, vehicle_status_id + 1, 0, 1>>
      [] item = "no_payload" -> <<2, 0, ORD_D, vehicle_status_id, 0>>
      [] item = "byte" -> <<1>>

RawLog(items, vehicle_status_id, arm_reason_offset) ==
    Zeros(HEADER_SIZE)
      \o Flatten([i \in DOMAIN items |->
                    ItemBytes(items[i], vehicle_status_id, arm_reason_offset)])

ItemLists == UNION {[1..n -> ItemNames] : n \in 0..MaxItems}

\* No search at hand.
NoSearch == [SearchStart(<<>>, 0, 0, <<>>) EXCEPT !.pc = "none"]

\* ------------------------------------------------------------ the state
VARIABLES
    db,            \* the committed tables of the sqlite3 file
    user_version,  \* PRAGMA user_version of the file
    handles,       \* the DatabaseULog objects
    lastOp,        \* the call that took the last step, and how it ended
    saved,         \* per ULog rowid: what the save() that created it wrote
    nloads,        \* explicit load() calls so far
    io,            \* a log file, the caller's stream on it, the last digest call
    search         \* a raw log and the locals of reverse_search_for_arm on it

vars == <<db, user_version, handles, lastOp, saved, nloads, io, search>>

\* A DatabaseULog object: the ULog attributes and the attributes of the
\* subclass; pc/arg hold the position and argument of a call in progress,
\* ctor tells a load() run by __init__, and synced records that the object
\* was filled by load() from the ULog row that is still stored under _pk.
Control ==
    [alive |-> FALSE, pk |-> None, lazy_loaded |-> TRUE, sha256sum |-> 0,
     pc |-> "idle", arg |-> FALSE, ctor |-> FALSE, synced |-> FALSE]

Absent == EmptyULog @@ Control

Content(u) == [f \in ContentFields |-> u[f]]

NotSaved == [present |-> FALSE, sha256sum |-> 0, log |-> EmptyULog, rows |-> EmptyDb]

Op(op, h, res) == [op |-> op, h |-> h, res |-> res, fetched |-> FALSE]

Init ==
    /\ db \in {NewDb(NoSequence), NewDb(Sequence(0))}
    /\ user_version \in {SCHEMA_VERSION - 1, SCHEMA_VERSION, SCHEMA_VERSION + 1}
    /\ handles = [h \in Handles |-> Absent]
    /\ lastOp = Op("init", 0, "ok")
    /\ saved = [i \in Ids |-> NotSaved]
    /\ nloads = 0
    /\ io = NoFile
    /\ search = NoSearch

\* Mutant: what ran before the exception stays in the file.
TxnEndKeepsWrites(before, after, failed) == after

\* with db_handle() as con: the connection commits when the block ends
\* normally and rolls back when it ends with an exception.
TxnEnd(before, after, failed) == IF failed THEN before ELSE after

\* --------------------------------------------------------------- __init__
\* DatabaseULog(db_handle, primary_key, log_file, lazy) with a log file,
\* or with wrong arguments, or against an old database.
Construct(h, primary_key, k, lazy) ==
    /\ ~handles[h].alive
    /\ \A g \in Handles : g < h => handles[g].alive
    /\ UNCHANGED <<db, user_version, saved, nloads, io, search>>
    /\ IF user_version < SCHEMA_VERSION
       THEN /\ lastOp' = Op("init", h, "SchemaVersionTooOld")
            /\ UNCHANGED handles
       ELSE IF (k # None /\ primary_key # None) \/ (k = None /\ primary_key = None)
       THEN /\ lastOp' = Op("init", h, "InvalidArguments")
            /\ UNCHANGED handles
       ELSE IF k # None
       THEN /\ handles' = [handles EXCEPT ![h] =
                  FileLog(k) @@ [Control EXCEPT !.alive = TRUE, !.lazy_loaded = lazy,
                                                !.sha256sum = Sha256(k)]]
            /\ lastOp' = Op("init", h, "ok")
       ELSE IF ~exists_in_db(db, primary_key)
       THEN /\ lastOp' = Op("init", h, "NotFound")
            /\ UNCHANGED handles
       ELSE /\ handles' = [handles EXCEPT ![h] =
                  EmptyULog @@ [Control EXCEPT !.alive = TRUE, !.pk = primary_key,
                                               !.lazy_loaded = lazy, !.pc = "load_read",
                                               !.arg = lazy, !.ctor = TRUE]]
            /\ lastOp' = Op("init_check", h, "ok")

\* ------------------------------------------------------------------- load
\* load(lazy) called on an object: the existence check.
LoadCheck(h, lazy) ==
    /\ handles[h].alive
    /\ handles[h].pc = "idle"
    /\ nloads < MaxLoads
    /\ nloads' = nloads + 1
    /\ UNCHANGED <<db, user_version, saved, io, search>>
    /\ IF ~exists_in_db(db, handles[h].pk)
       THEN /\ lastOp' = Op("load", h, "NotFound")
            /\ UNCHANGED handles
       ELSE /\ handles' = [handles EXCEPT ![h].pc = "load_read", ![h].arg = lazy]
            /\ lastOp' = Op("load_check", h, "ok")

\* load(): the reads on the second connection.  ulog_result[0] on a row that
\* is gone raises TypeError before anything is assigned.
LoadRead(h) ==
    LET u == handles[h]
        op == IF u.ctor THEN "init" ELSE "load"
    IN  /\ u.alive
        /\ u.pc = "load_read"
        /\ UNCHANGED <<db, user_version, saved, nloads, io, search>>
        /\ IF ~exists_in_db(db, u.pk)
           THEN /\ handles' = [handles EXCEPT ![h] =
                      IF u.ctor THEN Absent ELSE [u EXCEPT !.pc = "idle", !.arg = FALSE]]
                /\ lastOp' = Op(op, h, "TypeError")
           ELSE /\ handles' = [handles EXCEPT ![h] =
                      [LoadRows(u, db, u.arg) EXCEPT
                          !.pc = "idle", !.arg = FALSE, !.ctor = FALSE, !.synced = TRUE]]
                /\ lastOp' = Op(op, h, "ok")

\* ------------------------------------------------------------ get_dataset
GetDataset(h, name, multi_instance, lazy, caching) ==
    LET u == handles[h]
        r == get_dataset(u, db, name, multi_instance, lazy, caching)
    IN  /\ u.alive
        /\ u.pc = "idle"
        /\ lastOp' = [Op("get_dataset", h, r.res) EXCEPT !.fetched = r.fetched]
        /\ handles' = [handles EXCEPT ![h].data_list = r.data_list]
        /\ UNCHANGED <<db, user_version, saved, nloads, io, search>>

\* ------------------------------------------------------------------- save
\* Mutant: the identity check is missing.
AlreadySavedNever(u) == FALSE

\* if self._pk is not None: raise KeyError(...)
AlreadySaved(u) == u.pk # None

\* Mutant: the Id found for the digest is reported, not kept.
SaveBeginNotBound(h, append_json) ==
    LET u == handles[h]
        pk_from_hash == primary_key_from_sha256sum(db, u.sha256sum)
    IN  /\ u.alive
        /\ u.pc = "idle"
        /\ UNCHANGED <<db, user_version, saved, nloads, io, search>>
        /\ IF AlreadySaved(u)
           THEN /\ lastOp' = Op("save", h, "AlreadyPersisted")
                /\ UNCHANGED handles
           ELSE IF pk_from_hash # None
           THEN /\ UNCHANGED handles
                /\ lastOp' = Op("save", h, "DuplicateContent")
           ELSE /\ handles' = [handles EXCEPT ![h].pc = "save_insert", ![h].arg = append_json]
                /\ lastOp' = Op("save_lookup", h, "ok")

\* save(append_json) up to the start of the transaction: the identity check
\* and the lookup of the digest.
SaveBegin(h, append_json) ==
    LET u == handles[h]
        pk_from_hash == primary_key_from_sha256sum(db, u.sha256sum)
    IN  /\ u.alive
        /\ u.pc = "idle"
        /\ UNCHANGED <<db, user_version, saved, nloads, io, search>>
        /\ IF AlreadySaved(u)
           THEN /\ lastOp' = Op("save", h, "AlreadyPersisted")
                /\ UNCHANGED handles
           ELSE IF pk_from_hash # None
           THEN /\ handles' = [handles EXCEPT ![h].pk = pk_from_hash]
                /\ lastOp' = Op("save", h, "DuplicateContent")
           ELSE /\ handles' = [handles EXCEPT ![h].pc = "save_insert", ![h].arg = append_json]
                /\ lastOp' = Op("save_lookup", h, "ok")

\* The uniqueness of ULog.SHA256Sum: an INSERT of a digest that a stored
\* row has is refused by the database.
DigestTaken(d, sha256sum) ==
    \E i \in DOMAIN d.ULog : d.ULog[i].SHA256Sum = sha256sum

\* save(): the transaction.  fault = 0 is a run to the commit; fault = n is
\* the n-th statement group (the commit being the last) raising an sqlite3
\* error.  The INSERT into ULog raises IntegrityError when the digest is
\* already there; _pk is assigned right after that INSERT.
SaveInsert(h, fault, id) ==
    LET u == handles[h]
        taken == DigestTaken(db, u.sha256sum)
        done == IF fault = 0 THEN SaveSteps - 1 ELSE fault - 1
        after == SaveWrites(db, u, id, u.arg, done)
    IN  /\ u.alive
        /\ u.pc = "save_insert"
        /\ UNCHANGED <<user_version, nloads, io, search>>
        /\ IF fault = 1 \/ taken
           THEN /\ id = 1
                /\ db' = TxnEnd(db, db, TRUE)
                /\ handles' = [handles EXCEPT ![h].pc = "idle", ![h].arg = FALSE]
                /\ lastOp' = Op("save", h, IF fault = 1 THEN "OperationalError"
                                           ELSE "IntegrityError")
                /\ UNCHANGED saved
           ELSE /\ id \in FreeIds(db)
                /\ db' = TxnEnd(db, after, fault # 0)
                /\ handles' = [handles EXCEPT ![h].pc = "idle", ![h].arg = FALSE, ![h].pk = id]
                /\ lastOp' = Op("save", h, IF fault = 0 THEN "ok" ELSE "OperationalError")
                /\ saved' = IF fault = 0
                            THEN [saved EXCEPT ![id] =
                                    [present |-> TRUE, sha256sum |-> u.sha256sum,
                                     log |-> Content(u),
                                     rows |-> RowsOf(after, id)]]
                            ELSE saved

\* ----------------------------------------------------------------- delete
Delete(h) ==
    LET u == handles[h]
    IN  /\ u.alive
        /\ u.pc = "idle"
        /\ UNCHANGED <<user_version, nloads, io, search>>
        /\ IF u.pk = None
           THEN /\ lastOp' = Op("delete", h, "NotFound")
                /\ UNCHANGED <<db, handles, saved>>
           ELSE /\ db' = TxnEnd(db, Cascade(db, u.pk), FALSE)
                /\ handles' = [g \in Handles |->
                      IF g = h THEN [u EXCEPT !.pk = None, !.synced = FALSE]
                      ELSE IF handles[g].pk = u.pk THEN [handles[g] EXCEPT !.synced = FALSE]
                      ELSE handles[g]]
                /\ saved' = [saved EXCEPT ![u.pk] = NotSaved]
                /\ lastOp' = Op("delete", h, "ok")

\* ------------------------------------------------------------------- Next
\* The dataset names of the files at hand; ("gps", 1) is a key no file has.
DatasetNames ==
    UNION {{FileLog(k).data_list[i].name : i \in DOMAIN FileLog(k).data_list} :
              k \in Contents}
MultiIds == {0, 1}

Next ==
    \/ \E h \in Handles, primary_key \in {None} \cup Ids, k \in {None} \cup Contents,
          lazy \in BOOLEAN : /\ (k # None => lazy)
                             /\ Construct(h, primary_key, k, lazy)
    \/ \E h \in Handles : LoadRead(h)
    \/ \E h \in Handles, name \in DatasetNames, multi_instance \in MultiIds,
          lazy \in BOOLEAN, caching \in BOOLEAN :
            GetDataset(h, name, multi_instance, lazy, caching)
    \/ \E h \in Handles, append_json \in BOOLEAN : SaveBegin(h, append_json)
    \/ \E h \in Handles, fault \in 0..SaveSteps, id \in Ids : SaveInsert(h, fault, id)
    \/ \E h \in Handles : Delete(h)

\* Objects that are loaded once, by their constructor.
Spec == Init /\ [][Next]_vars

\* The same with load() called again on objects that are in use.
NextReload ==
    \/ Next
    \/ \E h \in Handles, lazy \in BOOLEAN : LoadCheck(h, lazy)

\* A database at the version of the program, with ULog.Id a plain rowid.
InitReload ==
    /\ Init
    /\ user_version = SCHEMA_VERSION
    /\ db = NewDb(NoSequence)

SpecReload == InitReload /\ [][NextReload]_vars

\* ------------------------------------------- static lookups, write_ulog
\* DatabaseULog.exists_in_db(db_handle, primary_key), called on the class.
ExistsInDb(primary_key) ==
    /\ lastOp' = Op("exists_in_db", 0,
                    IF exists_in_db(db, primary_key) THEN "True" ELSE "False")
    /\ UNCHANGED <<db, user_version, handles, saved, nloads, io, search>>

\* DatabaseULog.primary_key_from_sha256sum(db_handle, digest), called on
\* the class.
PrimaryKeyFromSha256sum(sha256sum) ==
    /\ lastOp' = Op("primary_key_from_sha256sum", 0,
                    IF primary_key_from_sha256sum(db, sha256sum) # None
                    THEN "found" ELSE "None")
    /\ UNCHANGED <<db, user_version, handles, saved, nloads, io, search>>

\* write_ulog(log_file): refused when _lazy_loaded is set, else the ULog
\* writer runs on the object's attributes.
WriteUlog(h) ==
    /\ handles[h].alive
    /\ handles[h].pc = "idle"
    /\ lastOp' = Op("write_ulog", h,
                    IF handles[h].lazy_loaded THEN "IllegalAfterLazyLoad" ELSE "ok")
    /\ UNCHANGED <<db, user_version, handles, saved, nloads, io, search>>

\* The operations of Next together with the lookups on the class and
\* write_ulog, on a database whose ULog.Id is a plain rowid and whose
\* version is the program's or the one before.
InitAux ==
    /\ Init
    /\ user_version <= SCHEMA_VERSION
    /\ db = NewDb(NoSequence)

NextAux ==
    \/ Next
    \/ \E primary_key \in Ids : ExistsInDb(primary_key)
    \/ \E k \in Contents : PrimaryKeyFromSha256sum(Sha256(k))
    \/ \E h \in Handles : WriteUlog(h)

SpecAux == InitAux /\ [][NextAux]_vars

\* ------------------------------------------------- digest of a log file
\* The caller reads n bytes from its open stream.
FileRead(n) ==
    /\ ~io.closed
    /\ io.pos < Len(io.content)
    /\ io' = [io EXCEPT !.op = "read",
                        !.pos = IF @ + n < Len(io.content) THEN @ + n ELSE Len(io.content)]
    /\ UNCHANGED <<db, user_version, handles, lastOp, saved, nloads, search>>

\* The caller closes its stream.
FileClose ==
    /\ ~io.closed
    /\ io' = [io EXCEPT !.op = "close", !.closed = TRUE]
    /\ UNCHANGED <<db, user_version, handles, lastOp, saved, nloads, search>>

\* DatabaseULog.calc_sha256sum(log_file)
CalcSha256sum(log_file) ==
    LET r == calc_sha256sum(io, log_file)
    IN  /\ io.op # "none"
        /\ io' = [io EXCEPT !.op = "calc_" \o log_file, !.res = r.res, !.pos = r.pos]
        /\ UNCHANGED <<db, user_version, handles, lastOp, saved, nloads, search>>

\* A log file of any content, opened by the caller for reading.
InitDigest ==
    /\ db = NewDb(NoSequence)
    /\ user_version = SCHEMA_VERSION
    /\ handles = [h \in Handles |-> Absent]
    /\ lastOp = Op("init", 0, "ok")
    /\ saved = [i \in Ids |-> NotSaved]
    /\ nloads = 0
    /\ io \in {[content |-> c, closed |-> FALSE, pos |-> 0, op |-> "open", res |-> PyNone] :
                  c \in FileContents}
    /\ search = NoSearch

NextDigest ==
    \/ \E n \in 1..MaxFileLen : FileRead(n)
    \/ FileClose
    \/ \E log_file \in {"None", "path", "stream"} : CalcSha256sum(log_file)

SpecDigest == InitDigest /\ [][NextDigest]_vars

\* ------------------------------------------------ search of a raw log
\* One pass of reverse_search_for_arm through its outer loop test.
ArmOuter ==
    /\ search.pc = "outer"
    /\ search' = OuterStep(search)
    /\ UNCHANGED <<db, user_version, handles, lastOp, saved, nloads, io>>

\* One pass through the test of the inner loop and, if it holds, its body.
ArmInner ==
    /\ search.pc = "inner"
    /\ search' = InnerStep(search)
    /\ UNCHANGED <<db, user_version, handles, lastOp, saved, nloads, io>>

\* The statements after the inner loop.
ArmTail ==
    /\ search.pc = "tail"
    /\ search' = TailStep(search)
    /\ UNCHANGED <<db, user_version, handles, lastOp, saved, nloads, io>>

\* reverse_search_for_arm called on a raw log.
InitArm ==
    /\ db = NewDb(NoSequence)
    /\ user_version = SCHEMA_VERSION
    /\ handles = [h \in Handles |-> Absent]
    /\ lastOp = Op("init", 0, "ok")
    /\ saved = [i \in Ids |-> NotSaved]
    /\ nloads = 0
    /\ io = NoFile
    /\ search \in {SearchStart(RawLog(items, id, arm_reason_offset), id,
                               arm_reason_offset, items) :
                      items \in ItemLists, id \in VehicleStatusIds,
                      arm_reason_offset \in ArmReasonOffsets}

NextArm ==
    \/ ArmOuter
    \/ ArmInner
    \/ ArmTail

SpecArm == InitArm /\ [][NextArm]_vars

\* ================================================================ claims
\* What the constructor DatabaseULog(db_handle, primary_key=pk, lazy=False)
\* leaves in object h, seen right after it returned.
EagerInitDone(h) ==
    /\ lastOp.op = "init"
    /\ lastOp.h = h
    /\ lastOp.res = "ok"
    /\ handles[h].pk # None
    /\ ~handles[h].lazy_loaded

\* C1: Round trip.  An object constructed from the primary key that save()
\* assigned, with lazy=False, holds element for element what the saving
\* object held: header, appended offsets, datasets (names, multi ids, field
\* types, values), dropouts, plain and tagged messages, message formats,
\* scalar and multi-valued info, initial, default and changed parameters,
\* and the digest.
C1_RoundTrip ==
    \A h \in Handles :
        EagerInitDone(h) =>
            /\ saved[handles[h].pk].present
            /\ Content(handles[h]) = saved[handles[h].pk].log
            /\ handles[h].sha256sum = saved[handles[h].pk].sha256sum

\* A decoded log with two instances of a dataset, signed values and every
\* kind of entry has made the round trip.
C1_Witness ==
    \E h \in Handles :
        /\ EagerInitDone(h)
        /\ Content(handles[h]) = FileLog(1)
        /\ Len(handles[h].data_list) = 2
        /\ DictGet(handles[h].data_list[2].data, "value") = <<5, -128>>

\* The rows of ULog that carry the digest of object h.
RowsWithDigest(d, sha256sum) ==
    {i \in DOMAIN d.ULog : d.ULog[i].SHA256Sum = sha256sum}

\* C2: Sequential dedup.  save() on an object without identity whose digest
\* is already in a ULog row ends with DuplicateContent, sets the object's
\* primary key to the Id of that row, writes nothing, and exactly one ULog
\* row carries the digest afterwards.
C2_SequentialDedup ==
    [][\A h \in Handles, append_json \in BOOLEAN :
        (/\ handles[h].pk = None
         /\ lastOp'.op \in {"save", "save_lookup"}
         /\ lastOp'.h = h
         /\ RowsWithDigest(db, handles[h].sha256sum) # {}
         /\ SaveBegin(h, append_json))
        => /\ lastOp'.op = "save"
           /\ lastOp'.res = "DuplicateContent"
           /\ \E i \in RowsWithDigest(db, handles[h].sha256sum) :
                 handles'[h].pk = db.ULog[i].Id
           /\ db' = db
           /\ Cardinality(RowsWithDigest(db', handles[h].sha256sum)) = 1]_vars

\* A second object for a stored digest was refused and now carries the Id
\* of the stored row.
C2_Witness ==
    /\ lastOp.op = "save"
    /\ lastOp.res = "DuplicateContent"
    /\ \E i \in DOMAIN db.ULog :
          /\ db.ULog[i].Id = handles[lastOp.h].pk
          /\ db.ULog[i].SHA256Sum = handles[lastOp.h].sha256sum
    /\ \E g \in Handles : g # lastOp.h /\ handles[g].pk = handles[lastOp.h].pk

\* C3: Concurrent dedup.  A save() that passed the digest lookup and finds,
\* when its transaction runs without a fault of the database, that another
\* object has committed the same digest in between, ends like the
\* sequential case: with DuplicateContent and the Id of the stored row.
C3_ConcurrentDedup ==
    [][\A h \in Handles, id \in Ids :
        (/\ handles[h].pc = "save_insert"
         /\ lastOp'.op = "save"
         /\ lastOp'.h = h
         /\ RowsWithDigest(db, handles[h].sha256sum) # {}
         /\ SaveInsert(h, 0, id))
        => /\ lastOp'.res = "DuplicateContent"
           /\ \E i \in RowsWithDigest(db, handles[h].sha256sum) :
                 handles'[h].pk = db.ULog[i].Id]_vars

\* C4: Atomic save.  The transaction of save() makes all of its rows
\* visible or none: when it ends with an error, whichever statement
\* raised, the tables and the record of saved rows are as before; when it
\* ends normally the tables hold every row of the object.
C4_AtomicSave ==
    [][\A h \in Handles :
        (/\ handles[h].pc = "save_insert"
         /\ lastOp'.op = "save"
         /\ lastOp'.h = h
         /\ \E fault \in 0..SaveSteps, id \in Ids : SaveInsert(h, fault, id))
        => IF lastOp'.res = "ok"
           THEN db' = SaveWrites(db, handles[h], handles'[h].pk, handles[h].arg,
                                 SaveSteps - 1)
           ELSE db' = db /\ saved' = saved]_vars

\* A save() failed after its INSERT into ULog, and no ULog row with the
\* rowid it had been given is in the file.
C4_Witness ==
    /\ lastOp.op = "save"
    /\ lastOp.res = "OperationalError"
    /\ handles[lastOp.h].pk # None
    /\ ~exists_in_db(db, handles[lastOp.h].pk)
    /\ RowsOf(db, handles[lastOp.h].pk) = EmptyDb

\* C5: Identity only on a successful persist.  After save() failed in its
\* transaction the object has no primary key.
C5_IdentityOnlyOnSuccess ==
    \A h \in Handles :
        (/\ lastOp.op = "save"
         /\ lastOp.h = h
         /\ lastOp.res \in {"OperationalError", "IntegrityError"})
        => handles[h].pk = None

\* C6: save() on an object that has a primary key ends with
\* AlreadyPersisted and leaves the tables and every object as they were.
C6_AlreadyPersisted ==
    [][\A h \in Handles, append_json \in BOOLEAN :
        (/\ handles[h].pk # None
         /\ lastOp'.op \in {"save", "save_lookup"}
         /\ lastOp'.h = h
         /\ SaveBegin(h, append_json))
        => /\ lastOp'.op = "save"
           /\ lastOp'.res = "AlreadyPersisted"
           /\ db' = db
           /\ handles' = handles]_vars

\* save() was refused on an object that load() had filled from its row.
C6_Witness ==
    /\ lastOp.op = "save"
    /\ lastOp.res = "AlreadyPersisted"
    /\ handles[lastOp.h].synced
    /\ exists_in_db(db, handles[lastOp.h].pk)

\* C7: Write-once.  The rows of a stored ULog row are those its save()
\* wrote; a step that changes the tables leaves the rows of every stored
\* identity as they are, unless it is delete() on an object with that
\* identity, which removes all of them.
C7_WriteOnce ==
    [][\/ db' = db /\ saved' = saved
       \/ /\ \A id \in Ids : RowsOf(db', id) = saved'[id].rows
          /\ \A id \in Ids :
               exists_in_db(db, id)
               => \/ RowsOf(db', id) = RowsOf(db, id)
                  \/ /\ RowsOf(db', id) = EmptyDb
                     /\ \E h \in Handles : Delete(h) /\ handles[h].pk = id]_vars

\* One identity has just been deleted while another, with datasets and
\* fields, is still stored as it was saved.
C7_Witness ==
    /\ lastOp.op = "delete"
    /\ lastOp.res = "ok"
    /\ \E id \in Ids :
          /\ saved[id].present
          /\ RowsOf(db, id).ULogField # <<>>
          /\ RowsOf(db, id) = saved[id].rows

\* The _data_list that load(lazy=False) builds for the row pk.
EagerDataList(d, pk) ==
    LoadRows(EmptyULog @@ [Control EXCEPT !.pk = pk], d, FALSE).data_list

HasDatasetRow(d, pk, name, multi_instance) ==
    \E i \in DOMAIN d.ULogDataset :
        /\ d.ULogDataset[i].ULogId = pk
        /\ d.ULogDataset[i].DatasetName = name
        /\ d.ULogDataset[i].MultiId = multi_instance

\* C8: Lazy/eager equivalence.  On an object filled by load() from a row
\* that is still stored, get_dataset(name, multi_instance, lazy=False) for
\* a dataset of the row returns, and leaves in _data_list, the dataset
\* that load(lazy=False) builds for it: same field declarations, same
\* value arrays.
C8_LazyEagerEquivalence ==
    [][\A h \in Handles, name \in DatasetNames, multi_instance \in MultiIds :
        (/\ handles[h].synced
         /\ lastOp'.op = "get_dataset"
         /\ lastOp'.h = h
         /\ HasDatasetRow(db, handles[h].pk, name, multi_instance)
         /\ GetDataset(h, name, multi_instance, FALSE, TRUE))
        => LET eager == EagerDataList(db, handles[h].pk)
               i == ExistingDataset(eager, name, multi_instance)
               j == ExistingDataset(handles'[h].data_list, name, multi_instance)
           IN  /\ i # 0
               /\ j # 0
               /\ lastOp'.res = "ok"
               /\ handles'[h].data_list[j] = eager[i]
               /\ get_dataset(handles[h], db, name, multi_instance, FALSE, TRUE).dataset
                    = eager[i]]_vars

\* After a lazy load every dataset of a two-dataset row has been fetched
\* with get_dataset and the object's _data_list is the eager one.
C8_Witness ==
    /\ lastOp.op = "get_dataset"
    /\ lastOp.fetched
    /\ lastOp.res = "ok"
    /\ handles[lastOp.h].synced
    /\ handles[lastOp.h].lazy_loaded
    /\ Len(handles[lastOp.h].data_list) = 2
    /\ \A i \in DOMAIN handles[lastOp.h].data_list :
          Truthy(handles[lastOp.h].data_list[i].data)
    /\ handles[lastOp.h].data_list = EagerDataList(db, handles[lastOp.h].pk)

\* A load with lazy=True has just returned on object h.
LazyLoadDone(h) ==
    /\ lastOp.op \in {"init", "load"}
    /\ lastOp.h = h
    /\ lastOp.res = "ok"
    /\ handles[h].pk # None
    /\ handles[h].lazy_loaded
    /\ handles[h].synced

\* The Field declarations stored for one dataset of the row pk.
StoredFields(d, pk, name, multi_instance) ==
    LET ds == SelectSeq(d.ULogDataset,
                    LAMBDA r : /\ r.ULogId = pk
                               /\ r.DatasetName = name
                               /\ r.MultiId = multi_instance)
        rows == SelectSeq(d.ULogField, LAMBDA r : r.DatasetId = ds[1].Id)
    IN  [i \in DOMAIN rows |-> FieldData(rows[i].TopicName, rows[i].DataType)]

StoredKeys(d, pk) ==
    {<<d.ULogDataset[i].DatasetName, d.ULogDataset[i].MultiId>> :
        i \in {j \in DOMAIN d.ULogDataset : d.ULogDataset[j].ULogId = pk}}

\* C9: After load(lazy=True) the (name, multi id) pairs of _data_list are
\* the stored ones, and every entry carries the Field declarations of its
\* stored dataset, with no column data.
C9_LazyLoadFieldDeclarations ==
    \A h \in Handles :
        LazyLoadDone(h) =>
            LET dl == handles[h].data_list
            IN  /\ {<<dl[i].name, dl[i].multi_id>> : i \in DOMAIN dl}
                      = StoredKeys(db, handles[h].pk)
                /\ \A i \in DOMAIN dl :
                      /\ dl[i].field_data
                            = StoredFields(db, handles[h].pk, dl[i].name, dl[i].multi_id)
                      /\ dl[i].data = <<>>

\* C10: Cache-hit rule.  get_dataset with caching on a key that has an entry
\* in _data_list: when the caller asks for metadata only, or the entry
\* holds data, that entry is returned, nothing is read and nothing changes;
\* otherwise the database is read once and, when the dataset is found, the
\* entry at that position is replaced by what was read and returned.  No
\* call of get_dataset changes an entry that holds data, so such an entry
\* is never read again.
C10_CacheHitRule ==
    [][\A h \in Handles :
        (lastOp'.op = "get_dataset" /\ lastOp'.h = h)
        => LET dl == handles[h].data_list
           IN  /\ \A i \in DOMAIN dl :
                     Truthy(dl[i].data) =>
                        /\ i \in DOMAIN handles'[h].data_list
                        /\ handles'[h].data_list[i] = dl[i]
               /\ \A name \in DatasetNames, multi_instance \in MultiIds, lazy \in BOOLEAN :
                     LET e == ExistingDataset(dl, name, multi_instance)
                         ret == get_dataset(handles[h], db, name, multi_instance,
                                            lazy, TRUE).dataset
                     IN  (e # 0 /\ GetDataset(h, name, multi_instance, lazy, TRUE))
                         => IF lazy \/ dl[e].data # <<>>
                            THEN /\ ~lastOp'.fetched
                                 /\ lastOp'.res = "ok"
                                 /\ ret = dl[e]
                                 /\ handles' = handles
                            ELSE /\ lastOp'.fetched
                                 /\ IF HasDatasetRow(db, handles[h].pk, name, multi_instance)
                                    THEN /\ lastOp'.res = "ok"
                                         /\ handles'[h].data_list = [dl EXCEPT ![e] = ret]
                                         /\ ret.field_data
                                              = StoredFields(db, handles[h].pk, name,
                                                             multi_instance)
                                    ELSE /\ lastOp'.res = "NotFound"
                                         /\ handles' = handles]_vars

\* One entry of a lazily loaded object has been read and now holds data,
\* another is still without, and the last call was answered from the entry
\* without reading.
C10_Witness ==
    /\ lastOp.op = "get_dataset"
    /\ lastOp.res = "ok"
    /\ ~lastOp.fetched
    /\ handles[lastOp.h].synced
    /\ \E i, j \in DOMAIN handles[lastOp.h].data_list :
          /\ Truthy(handles[lastOp.h].data_list[i].data)
          /\ ~Truthy(handles[lastOp.h].data_list[j].data)

\* The (name, multi id) keys of a _data_list, in its order.
CacheKeys(data_list) ==
    [i \in DOMAIN data_list |-> <<data_list[i].name, data_list[i].multi_id>>]

\* C11: The cache never grows through get_dataset.  Every call of
\* get_dataset leaves the (name, multi id) keys of _data_list as they
\* were; a call with caching for a key without an entry reads the database
\* and leaves the object as it was, so each further call reads again.
C11_CacheNeverGrows ==
    [][\A h \in Handles :
        (lastOp'.op = "get_dataset" /\ lastOp'.h = h)
        => /\ CacheKeys(handles'[h].data_list) = CacheKeys(handles[h].data_list)
           /\ \A name \in DatasetNames, multi_instance \in MultiIds, lazy \in BOOLEAN :
                 (/\ ExistingDataset(handles[h].data_list, name, multi_instance) = 0
                  /\ GetDataset(h, name, multi_instance, lazy, TRUE))
                 => /\ lastOp'.fetched
                    /\ handles' = handles]_vars

\* A dataset stored under the object's _pk has no entry in _data_list, and
\* the last call read a dataset from the database.
C11_Witness ==
    /\ lastOp.op = "get_dataset"
    /\ lastOp.res = "ok"
    /\ lastOp.fetched
    /\ \E key \in StoredKeys(db, handles[lastOp.h].pk) :
          ExistingDataset(handles[lastOp.h].data_list, key[1], key[2]) = 0

\* A ULog row with that Id is stored.
HasRow(d, pk) == \E i \in DOMAIN d.ULog : d.ULog[i].Id = pk

\* C12: NotFound on reads.  load() on an object whose _pk has no ULog
\* row, and the constructor given such a primary key against a database of
\* an accepted version, raise KeyError; get_dataset that reads the database
\* for a (name, multi id) pair without a ULogDataset row under _pk raises
\* KeyError.  In each case every object is left as it was.
C12_NotFoundOnReads ==
    [][/\ \A h \in Handles, lazy \in BOOLEAN :
            (/\ lastOp'.op \in {"load", "load_check"}
             /\ lastOp'.h = h
             /\ LoadCheck(h, lazy)
             /\ ~HasRow(db, handles[h].pk))
            => /\ lastOp'.res = "NotFound"
               /\ handles' = handles
       /\ \A h \in Handles, primary_key \in Ids, lazy \in BOOLEAN :
            (/\ lastOp'.op \in {"init", "init_check"}
             /\ lastOp'.h = h
             /\ user_version >= SCHEMA_VERSION
             /\ Construct(h, primary_key, None, lazy)
             /\ ~HasRow(db, primary_key))
            => /\ lastOp'.res = "NotFound"
               /\ handles' = handles
       /\ \A h \in Handles :
            (/\ lastOp'.op = "get_dataset"
             /\ lastOp'.h = h
             /\ lastOp'.fetched
             /\ ~(lastOp'.res = "NotFound" /\ handles' = handles))
            => \A name \in DatasetNames, multi_instance \in MultiIds,
                  lazy \in BOOLEAN, caching \in BOOLEAN :
                  GetDataset(h, name, multi_instance, lazy, caching)
                  => HasDatasetRow(db, handles[h].pk, name, multi_instance)]_vars

\* load() has just raised KeyError on an object that holds datasets and
\* whose _pk has no row.
C12_Witness ==
    /\ lastOp.op = "load"
    /\ lastOp.res = "NotFound"
    /\ handles[lastOp.h].pk # None
    /\ handles[lastOp.h].data_list # <<>>
    /\ ~HasRow(db, handles[lastOp.h].pk)

\* C13: delete() on an object whose _pk has no ULog row, be it None or the
\* Id of a row that is gone, raises KeyError and changes nothing.
C13_DeleteAbsentNotFound ==
    [][\A h \in Handles :
        (/\ lastOp'.op = "delete"
         /\ lastOp'.h = h
         /\ ~HasRow(db, handles[h].pk)
         /\ Delete(h))
        => /\ lastOp'.res = "NotFound"
           /\ UNCHANGED <<db, handles, saved>>]_vars

\* C14: Cascading delete.  When delete() has returned normally, no row
\* that belonged to the deleted Id, directly or through a parent row, is
\* left in any table, and no row references that Id.
C14_CascadingDelete ==
    [][\A h \in Handles :
        (/\ lastOp'.op = "delete"
         /\ lastOp'.h = h
         /\ lastOp'.res = "ok"
         /\ Delete(h))
        => LET owned == RowsOf(db, handles[h].pk)
           IN  /\ RowsOf(db', handles[h].pk) = EmptyDb
               /\ \A t \in TableNames :
                     \A i \in DOMAIN owned[t] :
                        \A j \in DOMAIN db'[t] : db'[t][j] # owned[t][i]]_vars

\* delete() has just returned and the tables are empty, while another
\* object still holds the datasets it read from the row that is gone.
C14_Witness ==
    /\ lastOp.op = "delete"
    /\ lastOp.res = "ok"
    /\ handles[lastOp.h].pk = None
    /\ \A t \in TableNames : db[t] = <<>>
    /\ \E g \in Handles \ {lastOp.h} :
          /\ handles[g].pk # None
          /\ ~handles[g].lazy_loaded
          /\ handles[g].data_list # <<>>

\* C15: When delete() has returned normally the object's _pk is None, and
\* save() called next on the same object is not refused as already saved
\* or as duplicate content: it reaches the INSERT, and when the transaction
\* commits a new ULog row is stored and its Id is the object's _pk.
C15_SaveLegalAfterDelete ==
    [][\A h \in Handles :
        /\ (lastOp'.op = "delete" /\ lastOp'.h = h /\ lastOp'.res = "ok")
           => handles'[h].pk = None
        /\ (/\ lastOp.op = "delete" /\ lastOp.h = h /\ lastOp.res = "ok"
            /\ lastOp'.op \in {"save", "save_lookup"} /\ lastOp'.h = h)
           => /\ lastOp'.op = "save_lookup"
              /\ handles'[h].pc = "save_insert"
        /\ (/\ lastOp.op = "save_lookup" /\ lastOp.h = h
            /\ lastOp'.op = "save" /\ lastOp'.h = h /\ lastOp'.res = "ok")
           => /\ handles'[h].pk # None
              /\ ~HasRow(db, handles'[h].pk)
              /\ HasRow(db', handles'[h].pk)]_vars

\* C16: When delete() has removed the row of an Id, load() and
\* get_dataset called next raise KeyError, on the deleting object (also
\* with caching while its _data_list still holds the datasets of the row)
\* and on every other object that load() filled from that row.
C16_NotFoundAfterDelete ==
    [][\A h \in Handles :
        (/\ lastOp'.op = "delete"
         /\ lastOp'.h = h
         /\ lastOp'.res = "ok"
         /\ HasRow(db, handles[h].pk)
         /\ Delete(h))
        => \A g \in Handles :
              (g = h \/ (handles[g].synced /\ handles[g].pk = handles[h].pk))
              => /\ ~exists_in_db(db', handles'[g].pk)
                 /\ \A name \in DatasetNames, multi_instance \in MultiIds,
                       lazy \in BOOLEAN, caching \in BOOLEAN :
                       get_dataset(handles'[g], db', name, multi_instance,
                                   lazy, caching).res = "NotFound"]_vars

\* The calls that read or write the tables.
StoreOps ==
    {"init", "init_check", "load", "load_check", "get_dataset", "save", "save_lookup",
     "delete", "exists_in_db", "primary_key_from_sha256sum"}

\* C17: Schema gate on every access.  Against a database whose
\* user_version is below SCHEMA_VERSION, the constructor, save, load,
\* get_dataset, delete, exists_in_db and primary_key_from_sha256sum all
\* end with the version error, and no table is changed.
C17_SchemaGateEveryAccess ==
    [][(user_version < SCHEMA_VERSION /\ lastOp'.op \in StoreOps)
        => /\ lastOp'.res = "SchemaVersionTooOld"
           /\ db' = db]_vars

\* C18: Hard stop on any mismatch.  An object is constructed only against
\* a database whose user_version equals SCHEMA_VERSION; a lower or a higher
\* one is refused.
C18_HardStopOnMismatch ==
    \A h \in Handles : handles[h].alive => user_version = SCHEMA_VERSION

\* Every dataset of the object holds its column data.
Materialized(u) == \A i \in DOMAIN u.data_list : Truthy(u.data_list[i].data)

\* C20: write_ulog raises the ValueError of a lazy load exactly when the
\* column data of the object was never read: it raises after
\* load(lazy=True), and it does not raise on an object whose datasets all
\* hold data, such as one constructed from a log file with the default
\* arguments or one loaded with lazy=False.
C20_WriteUlogRefusal ==
    [][\A h \in Handles :
        (lastOp'.op = "write_ulog" /\ lastOp'.h = h)
        => (lastOp'.res = "IllegalAfterLazyLoad" <=> ~Materialized(handles[h]))]_vars

\* C19: The digest covers the whole content.  calc_sha256sum given the
\* path of a file, an open stream on it at any position, or a closed stream
\* on it, returns the digest of all the bytes of the file.
C19_DigestCoversContent ==
    [][(io'.op \in {"calc_path", "calc_stream"} /\ io' # io)
        => io'.res = hexdigest(io.content)]_vars

\* An object with nothing but the primary key pk, as load() finds it when
\* the constructor calls it.
Probe(pk) == EmptyULog @@ [Control EXCEPT !.pk = pk]

\* C21: Retrieval does not depend on append_json.  Whenever save() commits,
\* the tables it leaves and the tables the same save() would have left
\* with the other value of append_json give the same object to load(), lazy
\* or not, and the same result to every get_dataset on it.
C21_ReadsIgnoreJson ==
    [][\A h \in Handles :
        (/\ lastOp'.op = "save"
         /\ lastOp'.h = h
         /\ lastOp'.res = "ok"
         /\ handles[h].pc = "save_insert")
        => LET pk == handles'[h].pk
               other == SaveWrites(db, handles[h], pk, ~handles[h].arg, SaveSteps - 1)
               lazy_here == LoadRows(Probe(pk), db', TRUE)
               lazy_other == LoadRows(Probe(pk), other, TRUE)
           IN  /\ lazy_here = lazy_other
               /\ LoadRows(Probe(pk), db', FALSE) = LoadRows(Probe(pk), other, FALSE)
               /\ \A i \in DOMAIN lazy_here.data_list, lazy \in BOOLEAN, caching \in BOOLEAN :
                     LET key == lazy_here.data_list[i]
                     IN  get_dataset(lazy_here, db', key.name, key.multi_id, lazy, caching)
                           = get_dataset(lazy_here, other, key.name, key.multi_id,
                                         lazy, caching)]_vars

\* save(append_json=True) has just committed a log with a 'float' column:
\* the JSON column of its fields is filled.
C21_Witness ==
    /\ lastOp.op = "save"
    /\ lastOp.res = "ok"
    /\ \E i \in DOMAIN db.ULogField :
          /\ db.ULogField[i].DataType = "float"
          /\ ~db.ULogField[i].ValueJson.null
          /\ db.ULogField[i].ValueArray # <<>>

\* The 'timestamp' column stored for the dataset of a ULogField row.
TimestampsOf(d, row) ==
    LET ts == SelectSeq(d.ULogField,
                  LAMBDA r : r.DatasetId = row.DatasetId /\ r.TopicName = "timestamp")
    IN  FromBuffer(ts[1].ValueArray, ts[1].DataType)

NonFinite(v, t) == t = "float" /\ v \in {F_NAN, F_INF, F_NINF}

\* C22: Every field stored by save(append_json=True) has in its JSON
\* column, under the timestamp of each row, the null marker when the value
\* of the row is NaN, +infinity or -infinity, and the number itself when
\* the value is finite.
C22_NonFiniteAsNull ==
    \A i \in DOMAIN db.ULogField :
        LET row == db.ULogField[i]
            values == FromBuffer(row.ValueArray, row.DataType)
            timestamps == TimestampsOf(db, row)
        IN  ~row.ValueJson.null
            => \A j \in DOMAIN values :
                  /\ DictHas(row.ValueJson.items, timestamps[j])
                  /\ DictGet(row.ValueJson.items, timestamps[j])
                        = IF NonFinite(values[j], row.DataType)
                          THEN <<Tok("null", 0)>>
                          ELSE <<Tok("num", values[j])>>

\* A connection that a call obtained from self._db(): either the call ran
\* a with-block on it, which ends with commit or rollback on every way out,
\* or the call returned without entering one.
Scope(entered) == [entered |-> entered, exited |-> entered]

\* The connections obtained by the step that lastOp records, in the order
\* of the calls of self._db().
Connections(l) ==
    CASE l.h = 0 /\ l.op = "init" -> <<>>
      [] l.op = "write_ulog" -> <<>>
      [] l.op = "save" /\ l.res = "AlreadyPersisted" -> <<>>
      [] l.op = "delete" /\ l.res = "NotFound" -> <<>>
      [] l.op = "init" /\ l.res = "NotFound" -> <<Scope(TRUE), Scope(TRUE)>>
      [] l.op = "init_check" -> <<Scope(TRUE), Scope(TRUE)>>
      [] l.op = "get_dataset" /\ ~l.fetched -> <<Scope(FALSE)>>
      [] OTHER -> <<Scope(TRUE)>>

\* C24: Every call of save, load, get_dataset and delete has, when it
\* returns or raises, left the with-block of every connection it obtained,
\* the return of get_dataset from _data_list included.
C24_ScopesReleased ==
    \A i \in DOMAIN Connections(lastOp) : Connections(lastOp)[i].exited

\* load() has just returned on object h, which it filled from a stored row.
LoadDone(h) ==
    /\ lastOp.op \in {"init", "load"}
    /\ lastOp.h = h
    /\ lastOp.res = "ok"
    /\ handles[h].pk # None
    /\ handles[h].synced

\* C25: The changed parameters of a loaded object are in the order of
\* their timestamps, and they are the entries that were saved.
C25_ChangedParametersByTime ==
    \A h \in Handles :
        LoadDone(h) =>
            LET cp == handles[h].changed_parameters
                was == saved[handles[h].pk].log.changed_parameters
            IN  /\ \A i, j \in DOMAIN cp : i < j => cp[i].timestamp <= cp[j].timestamp
                /\ Len(cp) = Len(was)
                /\ Range(cp) = Range(was)

\* C26: load() is idempotent.  load() on an object that load() has filled
\* before from the same row, still stored, leaves the object as a first
\* load of that row leaves it: nothing is there twice.
C26_LoadIdempotent ==
    [][\A h \in Handles :
        (/\ lastOp'.op = "load"
         /\ lastOp'.h = h
         /\ lastOp'.res = "ok"
         /\ handles[h].pc = "load_read"
         /\ handles[h].synced)
        => Content(handles'[h])
             = Content(LoadRows(Probe(handles[h].pk), db, handles[h].arg))]_vars

\* C27: An object whose save() was refused as duplicate content holds the
\* Id of the stored row with its digest.  save() called next on it is
\* refused as already saved, and delete() called next on it removes that
\* row and every row that belongs to it.
C27_BoundAfterDuplicate ==
    [][\A h \in Handles :
        /\ (lastOp'.op = "save" /\ lastOp'.res = "DuplicateContent" /\ lastOp'.h = h)
           => /\ handles'[h].pk # None
              /\ \E i \in DOMAIN db'.ULog :
                    /\ db'.ULog[i].Id = handles'[h].pk
                    /\ db'.ULog[i].SHA256Sum = handles'[h].sha256sum
        /\ (/\ lastOp.op = "save" /\ lastOp.res = "DuplicateContent" /\ lastOp.h = h
            /\ lastOp'.h = h)
           => /\ lastOp'.op \in {"save", "save_lookup"}
                 => /\ lastOp'.op = "save"
                    /\ lastOp'.res = "AlreadyPersisted"
                    /\ db' = db
              /\ lastOp'.op = "delete"
                 => /\ lastOp'.res = "ok"
                    /\ HasRow(db, handles[h].pk)
                    /\ RowsOf(db', handles[h].pk) = EmptyDb
                    /\ \A t \in TableNames :
                          \A i \in DOMAIN RowsOf(db, handles[h].pk)[t] :
                             \A j \in DOMAIN db'[t] :
                                db'[t][j] # RowsOf(db, handles[h].pk)[t][i]]_vars

\* delete() has just returned on an object built from a log file, and the
\* other object, which had saved the same content, holds the Id of a row
\* that is gone.
C27_Witness ==
    /\ lastOp.op = "delete"
    /\ lastOp.res = "ok"
    /\ handles[lastOp.h].pk = None
    /\ handles[lastOp.h].data_list # <<>>
    /\ \E g \in Handles \ {lastOp.h} :
          /\ handles[g].pk # None
          /\ handles[g].sha256sum = handles[lastOp.h].sha256sum
          /\ handles[g].lazy_loaded
          /\ Materialized(handles[g])
          /\ ~HasRow(db, handles[g].pk)

\* C28: load() and a delete() by another object.  Whatever happens to
\* the row between the existence check of load() and its reads, load()
\* ends with KeyError and the object as it was, or ends normally with the
\* object filled from the row; it ends with no other error.
C28_LoadRacingDelete ==
    [][\A h \in Handles :
        (/\ handles[h].pc = "load_read"
         /\ lastOp'.h = h
         /\ lastOp'.op \in {"init", "load"})
        => \/ /\ lastOp'.res = "NotFound"
              /\ Content(handles'[h]) = Content(handles[h])
           \/ /\ lastOp'.res = "ok"
              /\ HasRow(db, handles[h].pk)
              /\ handles'[h].data_list
                   = LoadRows(Probe(handles[h].pk), db, handles[h].arg).data_list]_vars

\* What an eager load of the row pk of store d gives.
EagerLoad(d, pk) == Content(LoadRows(Probe(pk), d, FALSE))

\* Object u holds what load(lazy) of its row in store d leaves in a new
\* object.
LoadedFromStore(u, d, lazy) ==
    /\ u.pk # None
    /\ HasRow(d, u.pk)
    /\ Content(u) = Content(LoadRows(Probe(u.pk), d, lazy))

\* C29: Update by delete() then save().  On an object that holds what a
\* load of its row, lazy or not, left in it, delete() followed by save()
\* stores a row whose eager load equals the eager load of the row before
\* the deletion, field declarations and column values of every dataset
\* included.
C29_DeleteThenSavePreserves ==
    [][\A h \in Handles :
        (/\ lastOp'.op = "delete"
         /\ lastOp'.h = h
         /\ lastOp'.res = "ok"
         /\ \E lazy \in BOOLEAN : LoadedFromStore(handles[h], db, lazy))
        => \A id \in FreeIds(db'), append_json \in BOOLEAN :
              EagerLoad(SaveWrites(db', handles'[h], id, append_json, SaveSteps - 1), id)
                = EagerLoad(db, handles[h].pk)]_vars

\* The raw log of the search is a header followed by whole messages.
WellFormed(s) == \A i \in DOMAIN s.items : s.items[i] \in WellFormedItems

\* Some vehicle_status message of the raw log carries this item's reason.
HasStatus(s, item) == \E i \in DOMAIN s.items : s.items[i] = item

\* C23: The search of a raw log made of whole messages answers True exactly
\* when some vehicle_status message in it has a latest_arming_reason that
\* is not zero, and answers False when there are vehicle_status messages
\* and all of them have a zero latest_arming_reason, wherever the sync
\* markers lie between the messages.
C23_ArmedAtAnyPoint ==
    (search.pc = "done" /\ WellFormed(search))
    => /\ (search.res = "True") <=> HasStatus(search, "armed")
       /\ (HasStatus(search, "disarmed") /\ ~HasStatus(search, "armed"))
            => search.res = "False"

\* C30: reverse_search_for_arm ends on every raw log.  From one test of
\* the outer loop to the next the offset gets smaller, every pass of the
\* inner loop moves the read position forward, message sizes 0 and 1
\* included, and the function ends by returning a boolean or by raising
\* ValueError("No vehicle_status messages found in log file.").
C30_SearchTerminates ==
    [][/\ (search.pc = "outer" /\ search'.pc = "inner")
            => search'.offset <= search.offset
       /\ search.pc = "inner" => search'.offset = search.offset
       /\ (search.pc = "tail" /\ search'.pc = "outer")
            => search'.offset < search.offset
       /\ (search.pc = "inner" /\ search'.pc = "inner")
            => search'.pos > search.pos
       /\ search'.pc = "done"
            => search'.res \in {"True", "False", NoVehicleStatus}]_vars

====
